---- MODULE Spec2Model ----
(***************************************************************************)
(* Model of the medication catalog: the Medication model (the record       *)
(* store, backend/medications/models.py), the MedicationSerializer (the    *)
(* gateway's payload validation and wire form, serializers.py) and the     *)
(* read-only MedicationViewSet behind the router (views.py, urls.py).      *)
(*                                                                         *)
(* A date is the triple <<year, month, day>>; Python's None is <<>>.  A    *)
(* wire date is the sequence of the ten characters of YYYY-MM-DD.          *)
(***************************************************************************)
EXTENDS Integers, Sequences, FiniteSets, TLC

VARIABLES db, last

vars == <<db, last>>

\* Bound on the number of rows of the medications table.
MaxRecords == 2

-----------------------------------------------------------------------------
(* Values *)

\* Python None, as the value of a date attribute or of a missing dict key.
None == <<>>

\* The pk of an instance that was never saved (Python None); ids start at 1.
NoPk == 0

Dates == { <<2023, 12, 31>>, <<2024, 1, 1>>, <<2024, 6, 1>> }

Names == { "Lisinopril" }

Doses == { "10mg" }

Routes == { "oral" }

Facilities == { "Clinic A" }

\* The columns of the table besides id (models.py 5-10).
DataFields == { "name", "dose", "route", "start_date", "end_date", "facility" }

\* The columns declared without null=True / blank=True.
RequiredFields == DataFields \ { "end_date" }

\* date.__lt__: dates compare as (year, month, day).
DateLt(a, b) ==
    \/ a[1] < b[1]
    \/ a[1] = b[1] /\ a[2] < b[2]
    \/ a[1] = b[1] /\ a[2] = b[2] /\ a[3] < b[3]

-----------------------------------------------------------------------------
(* Record store: Medication *)

\* The in-memory Medication instances save() may be called on.
Instances ==
    [ pk : {NoPk} \cup (1..MaxRecords), name : Names, dose : Doses,
      route : Routes, start_date : Dates \cup {None},
      end_date : Dates \cup {None}, facility : Facilities ]

\* The row an instance is written as.
RowOf(inst) == [ f \in DataFields |-> inst[f] ]

\* save(update_fields=...): not given (None), or a collection of field names.
UpdateFieldsAll == [ given |-> FALSE, fields |-> {} ]

UpdateFieldsChoices ==
    { UpdateFieldsAll }
    \cup { [ given |-> TRUE, fields |-> F ] :
             F \in { {}, {"end_date"}, {"start_date"} } }

\* The error both layers build for the date rule.
ModelEndDateError == << "end_date", "End date cannot be before start date." >>

\* Model.clean_fields(): a null in a column that is not null=True.
CleanFields(inst) ==
    IF inst.start_date = None
    THEN { << "start_date", "This field cannot be null." >> }
    ELSE {}

\* Mutant of Clean: the comparison written <= , which rejects equal dates.
CleanRejectsEqual(inst) ==
    IF inst.end_date # None
    THEN IF inst.start_date = None
         THEN "TypeError"
         ELSE IF ~DateLt(inst.start_date, inst.end_date)
              THEN "ValidationError"
              ELSE "ok"
    ELSE "ok"

\* Medication.clean(): "ok", "ValidationError", or the TypeError of comparing
\* a date with None.
Clean(inst) ==
    IF inst.end_date # None
    THEN IF inst.start_date = None
         THEN "TypeError"
         ELSE IF DateLt(inst.end_date, inst.start_date)
              THEN "ValidationError"
              ELSE "ok"
    ELSE "ok"

\* Model.full_clean(): clean_fields() and clean() both run, their
\* ValidationErrors are collected; any other exception propagates.
FullClean(inst) ==
    LET c == Clean(inst)
        errs == CleanFields(inst)
                \cup (IF c = "ValidationError" THEN {ModelEndDateError} ELSE {})
    IN  IF c = "TypeError"
        THEN [ kind |-> "TypeError", errs |-> {} ]
        ELSE IF errs # {}
             THEN [ kind |-> "ValidationError", errs |-> errs ]
             ELSE [ kind |-> "ok", errs |-> {} ]

\* The fields super().save() writes.
Written(uf) == IF uf.given THEN uf.fields ELSE DataFields

\* super().save(*args, **kwargs): an INSERT for a new instance, an UPDATE of
\* the written columns of the row otherwise; an empty update_fields returns
\* before touching the table.
ModelSave(d, inst, uf) ==
    IF uf.given /\ uf.fields = {}
    THEN d
    ELSE IF inst.pk = NoPk
         THEN Append(d, RowOf(inst))
         ELSE [ d EXCEPT ![inst.pk] =
                  [ f \in DataFields |->
                      IF f \in Written(uf) THEN inst[f] ELSE @[f] ] ]

\* Mutant of StoreAfterSave: super().save() called before full_clean().
StoreAfterSaveWritesFirst(d, inst, uf) == ModelSave(d, inst, uf)

\* Medication.save(): full_clean() first; when it raises, super().save() is
\* never reached.
StoreAfterSave(d, inst, uf) ==
    IF FullClean(inst).kind # "ok" THEN d ELSE ModelSave(d, inst, uf)

\* The pk of the instance after super().save().
PkAfterSave(d, inst, uf) ==
    IF inst.pk = NoPk /\ ~(uf.given /\ uf.fields = {})
    THEN Len(d) + 1
    ELSE inst.pk

-----------------------------------------------------------------------------
(* Gateway: MedicationSerializer *)

SerializerEndDateError == << "end_date", "End date cannot be before start date." >>

Payload(K, n, s, e) ==
    [ keys |-> K,
      name |-> IF "name" \in K THEN n ELSE "",
      dose |-> IF "dose" \in K THEN "10mg" ELSE "",
      route |-> IF "route" \in K THEN "oral" ELSE "",
      start_date |-> IF "start_date" \in K THEN s ELSE None,
      end_date |-> IF "end_date" \in K THEN e ELSE None,
      facility |-> IF "facility" \in K THEN "Clinic A" ELSE "" ]

\* Payloads that passed the per-field checks of a create: every required key.
CreatePayloads ==
    { Payload(K, n, s, e) :
        K \in { RequiredFields, DataFields }, n \in Names, s \in Dates,
        e \in Dates \cup {None} }

\* Payloads of a partial update.
UpdatePayloads ==
    { Payload(K, n, s, e) :
        K \in SUBSET { "start_date", "end_date" }, n \in Names,
        s \in Dates, e \in Dates \cup {None} }

NoPayload == Payload({}, "", None, None)

\* dict.get(k): None for a missing key.
DataGet(data, k) == IF k \in data.keys THEN data[k] ELSE None

\* Mutant of Validate: the error raised without its field key.
ValidateUnkeyed(data) ==
    LET start_date == DataGet(data, "start_date")
        end_date == DataGet(data, "end_date")
    IN  IF end_date # None /\ start_date # None /\ DateLt(end_date, start_date)
        THEN [ kind |-> "ValidationError",
               errs |-> { << "non_field_errors",
                             "End date cannot be before start date." >> } ]
        ELSE [ kind |-> "ok", errs |-> {} ]

\* MedicationSerializer.validate(data).
Validate(data) ==
    LET start_date == DataGet(data, "start_date")
        end_date == DataGet(data, "end_date")
    IN  IF end_date # None /\ start_date # None /\ DateLt(end_date, start_date)
        THEN [ kind |-> "ValidationError", errs |-> {SerializerEndDateError} ]
        ELSE [ kind |-> "ok", errs |-> {} ]

\* Two decimal digits / four decimal digits of a number, as characters.
Digit(n) == << "0", "1", "2", "3", "4", "5", "6", "7", "8", "9" >>[n + 1]

Pad2(n) == << Digit((n \div 10) % 10), Digit(n % 10) >>

Pad4(n) == << Digit((n \div 1000) % 10), Digit((n \div 100) % 10) >> \o Pad2(n)

\* Mutant of IsoFormat: day before month.
IsoFormatDayFirst(date) ==
    Pad4(date[1]) \o << "-" >> \o Pad2(date[3]) \o << "-" >> \o Pad2(date[2])

\* DateField.to_representation: date.isoformat().
IsoFormat(date) ==
    Pad4(date[1]) \o << "-" >> \o Pad2(date[2]) \o << "-" >> \o Pad2(date[3])

WireNull == << "null" >>

\* MedicationSerializer.to_representation over Meta.fields.
ToRepresentation(id, row) ==
    [ id |-> id, name |-> row.name, dose |-> row.dose, route |-> row.route,
      start_date |-> IsoFormat(row.start_date),
      end_date |-> IF row.end_date = None THEN WireNull
                   ELSE IsoFormat(row.end_date),
      facility |-> row.facility ]

-----------------------------------------------------------------------------
(* Read path: MedicationViewSet *)

\* Mutant of RowBefore: ORDER BY start_date, id DESC.
RowBeforeIdDescending(d, i, j) ==
    \/ DateLt(d[i].start_date, d[j].start_date)
    \/ d[i].start_date = d[j].start_date /\ i > j

\* ORDER BY start_date, id.
RowBefore(d, i, j) ==
    \/ DateLt(d[i].start_date, d[j].start_date)
    \/ d[i].start_date = d[j].start_date /\ i < j

RECURSIVE InsertSorted(_, _, _)
InsertSorted(d, s, i) ==
    IF s = << >>
    THEN << i >>
    ELSE IF RowBefore(d, i, Head(s))
         THEN << i >> \o s
         ELSE << Head(s) >> \o InsertSorted(d, Tail(s), i)

RECURSIVE OrderedIds(_, _)
OrderedIds(d, n) ==
    IF n = 0 THEN << >> ELSE InsertSorted(d, OrderedIds(d, n - 1), n)

\* Medication.objects.all().order_by("start_date", "id"), as ids.
Queryset(d) == OrderedIds(d, Len(d))

\* Mutant of ViewSetActions: the viewset derived from ModelViewSet.
ViewSetActionsWritable == { "list", "retrieve", "create", "partial_update" }

\* The actions ReadOnlyModelViewSet gives the viewset.
ViewSetActions == { "list", "retrieve" }

\* The routes DefaultRouter registers for a viewset: method and kind of path
\* to the viewset action; a route is bound only when the viewset has the
\* action.
RouteAction(method, id) ==
    CASE method = "GET" /\ id = NoPk -> "list"
      [] method = "GET" /\ id # NoPk -> "retrieve"
      [] method = "POST" /\ id = NoPk -> "create"
      [] method = "PUT" /\ id # NoPk -> "update"
      [] method = "PATCH" /\ id # NoPk -> "partial_update"
      [] method = "DELETE" /\ id # NoPk -> "destroy"
      [] OTHER -> "none"

-----------------------------------------------------------------------------
(* State *)

NoInstance ==
    [ pk |-> NoPk, name |-> "", dose |-> "", route |-> "",
      start_date |-> None, end_date |-> None, facility |-> "" ]

\* The record of the last operation: what was called, with what, and what the
\* caller got back.
Outcome(op, id, inst, uf, data, layer, kind, errs, out) ==
    [ op |-> op, id |-> id, inst |-> inst, uf |-> uf, data |-> data,
      layer |-> layer, kind |-> kind, errs |-> errs, out |-> out ]

\* No request in progress.
Idle ==
    Outcome("idle", NoPk, NoInstance, UpdateFieldsAll, NoPayload, "none", "ok",
            {}, << >>)

Init ==
    /\ db = << >>
    /\ last = Idle

\* Medication.save(update_fields=uf) called on an instance, directly against
\* the store: a first insert (no pk, no update_fields) or an update of a
\* stored row.
Save(inst, uf) ==
    /\ last = Idle
    /\ inst.pk \in {NoPk} \cup (1..Len(db))
    /\ inst.pk = NoPk => Len(db) < MaxRecords /\ ~uf.given
    /\ LET r == FullClean(inst)
       IN  /\ db' = StoreAfterSave(db, inst, uf)
           /\ last' = IF r.kind # "ok"
                      THEN Outcome("save", inst.pk, inst, uf, NoPayload,
                                   "store", r.kind, r.errs, << >>)
                      ELSE Outcome("save", PkAfterSave(db, inst, uf), inst, uf,
                                   NoPayload, "store", "ok", {}, << >>)

\* The instance serializer.save() builds: Medication(**data) for a create,
\* the stored instance with the payload's keys assigned for an update.
InstanceFor(d, pk, data) ==
    [ f \in DataFields \cup {"pk"} |->
        IF f = "pk" THEN pk
        ELSE IF f \in data.keys THEN data[f]
        ELSE IF pk = NoPk THEN None
        ELSE d[pk][f] ]

\* A write through the serializer: is_valid() runs validate(), then save()
\* builds the instance and calls Medication.save().
WriteEffect(op, pk, data) ==
    LET v == Validate(data)
        inst == InstanceFor(db, pk, data)
        r == FullClean(inst)
    IN  IF v.kind # "ok"
        THEN /\ db' = db
             /\ last' = Outcome(op, pk, inst, UpdateFieldsAll, data,
                                "gateway", v.kind, v.errs, << >>)
        ELSE /\ db' = StoreAfterSave(db, inst, UpdateFieldsAll)
             /\ last' = IF r.kind # "ok"
                        THEN Outcome(op, pk, inst, UpdateFieldsAll, data,
                                     "store", r.kind, r.errs, << >>)
                        ELSE Outcome(op, PkAfterSave(db, inst, UpdateFieldsAll),
                                     inst, UpdateFieldsAll, data, "store", "ok",
                                     {}, << >>)

\* The payloads a write for this pk carries: a create for no pk, a partial
\* update for a stored one.
WritablePayload(pk, data) ==
    /\ pk \in {NoPk} \cup (1..Len(db))
    /\ pk = NoPk => Len(db) < MaxRecords /\ data \in CreatePayloads
    /\ pk # NoPk => data \in UpdatePayloads

\* A programmatic write through the serializer (no endpoint reaches it).
SerializerWrite(pk, data) ==
    /\ last = Idle
    /\ WritablePayload(pk, data)
    /\ WriteEffect("write", pk, data)

\* validate_payload(data): MedicationSerializer.validate alone.
ValidatePayload(data) ==
    /\ last = Idle
    /\ LET v == Validate(data)
       IN  last' = Outcome("validate", NoPk, NoInstance, UpdateFieldsAll, data,
                           "gateway", v.kind, v.errs,
                           IF v.kind = "ok" THEN << data >> ELSE << >>)
    /\ UNCHANGED db

\* GET /medications/
ListMedications ==
    /\ last = Idle
    /\ LET q == Queryset(db)
       IN  last' = Outcome("list", NoPk, NoInstance, UpdateFieldsAll, NoPayload,
                           "view", "ok", {},
                           [ k \in 1..Len(q) |-> ToRepresentation(q[k], db[q[k]]) ])
    /\ UNCHANGED db

\* Mutant of GetObject: queryset.get(pk=id) with DoesNotExist left unmapped.
GetObjectUnmapped(d, id) ==
    IF \E k \in 1..Len(Queryset(d)) : Queryset(d)[k] = id
    THEN [ kind |-> "ok", out |-> << ToRepresentation(id, d[id]) >> ]
    ELSE [ kind |-> "DoesNotExist", out |-> << >> ]

\* get_object(): the row of the queryset with that pk, or Http404.
GetObject(d, id) ==
    IF \E k \in 1..Len(Queryset(d)) : Queryset(d)[k] = id
    THEN [ kind |-> "ok", out |-> << ToRepresentation(id, d[id]) >> ]
    ELSE [ kind |-> "NotFound", out |-> << >> ]

\* GET /medications/{id}/
GetMedication(id) ==
    /\ last = Idle
    /\ LET g == GetObject(db, id)
       IN  last' = Outcome("get", id, NoInstance, UpdateFieldsAll, NoPayload,
                           "view", g.kind, {}, g.out)
    /\ UNCHANGED db

\* The outcome is handed to the caller and the request ends: every operation
\* is one self-contained request, and only the table outlives it.
Respond ==
    /\ last # Idle
    /\ last' = Idle
    /\ UNCHANGED db

\* POST, PUT, PATCH and DELETE on /medications/ and /medications/{id}/:
\* answered 405 unless the viewset has the action the route names, and then
\* served by the serializer's is_valid() and save().
UnsafeRequest(method, id, data) ==
    /\ last = Idle
    /\ IF RouteAction(method, id) \in ViewSetActions
       THEN /\ WritablePayload(id, data)
            /\ WriteEffect("request", id, data)
       ELSE /\ db' = db
            /\ last' = Outcome("request", id, NoInstance, UpdateFieldsAll,
                               NoPayload, "view", "MethodNotAllowed", {}, << >>)

Next ==
    \/ \E inst \in Instances, uf \in UpdateFieldsChoices : Save(inst, uf)
    \/ \E pk \in {NoPk} \cup (1..MaxRecords),
          data \in CreatePayloads \cup UpdatePayloads : SerializerWrite(pk, data)
    \/ \E data \in CreatePayloads \cup UpdatePayloads : ValidatePayload(data)
    \/ ListMedications
    \/ \E id \in 1..(MaxRecords + 1) : GetMedication(id)
    \/ \E method \in { "POST", "PUT", "PATCH", "DELETE" },
          id \in 0..(MaxRecords + 1),
          data \in CreatePayloads \cup UpdatePayloads :
            UnsafeRequest(method, id, data)
    \/ Respond

Spec == Init /\ [][Next]_vars

-----------------------------------------------------------------------------
(* Properties *)

\* The row satisfies the date rule of the data model.
RowConsistent(row) ==
    row.end_date = None \/ ~DateLt(row.end_date, row.start_date)

\* The instance (or payload) carries both dates and the end is the earlier.
EndBeforeStart(start_date, end_date) ==
    start_date # None /\ end_date # None /\ DateLt(end_date, start_date)

\* The end date is absent, or both dates are there and the end is not earlier.
EndAbsentOrNotBefore(start_date, end_date) ==
    end_date = None \/ (start_date # None /\ ~DateLt(end_date, start_date))

\* The error the interface promises for the date rule.
EndDateError == << "end_date", "End date cannot be before start date." >>

\* strptime(value, "%Y-%m-%d"): the date a wire date reads as.
DigitValue(c) == CHOOSE n \in 0..9 : Digit(n) = c

ParseIso(w) ==
    << 1000 * DigitValue(w[1]) + 100 * DigitValue(w[2])
         + 10 * DigitValue(w[3]) + DigitValue(w[4]),
       10 * DigitValue(w[6]) + DigitValue(w[7]),
       10 * DigitValue(w[9]) + DigitValue(w[10]) >>

IsWireDate(w) == Len(w) = 10 /\ w[5] = "-" /\ w[8] = "-"

\* C1: every persisted record has end_date absent or end_date >= start_date,
\* whatever sequence of save() calls (inserts, updates of any subset of
\* fields, through the gateway or directly) produced the table.
C1_PersistedDatesConsistent ==
    \A i \in 1..Len(db) : RowConsistent(db[i])

\* C2: a record with end_date present and earlier than start_date is rejected
\* by save() and by validate_payload() with a ValidationError keyed by
\* end_date that carries 'End date cannot be before start date.'.
C2_EndBeforeStartRejected ==
    /\ ( /\ last.op \in {"save", "write"}
         /\ EndBeforeStart(last.inst.start_date, last.inst.end_date) )
       => last.kind = "ValidationError" /\ EndDateError \in last.errs
    /\ ( /\ last.op = "validate"
         /\ EndBeforeStart(DataGet(last.data, "start_date"),
                           DataGet(last.data, "end_date")) )
       => last.kind = "ValidationError" /\ EndDateError \in last.errs

\* A save() of a stored record rejected for the date rule.
C2_Witness ==
    /\ last.op = "save"
    /\ last.id \in 1..Len(db)
    /\ EndBeforeStart(last.inst.start_date, last.inst.end_date)
    /\ last.kind = "ValidationError"

\* C3: a record with end_date absent or end_date >= start_date (equal dates
\* included) is accepted by both: save() persists what it writes of the
\* record, validate_payload() returns the payload.
C3_ValidAccepted ==
    /\ ( /\ last.op = "save"
         /\ last.inst.start_date # None
         /\ EndAbsentOrNotBefore(last.inst.start_date, last.inst.end_date) )
       => /\ last.kind = "ok"
          /\ Written(last.uf) # {} =>
               /\ last.id \in 1..Len(db)
               /\ \A f \in Written(last.uf) : db[last.id][f] = last.inst[f]
    /\ ( /\ last.op = "validate"
         /\ EndAbsentOrNotBefore(DataGet(last.data, "start_date"),
                                 DataGet(last.data, "end_date")) )
       => last.kind = "ok" /\ last.out = << last.data >>

\* An insert of a record whose end date is its start date.
C3_Witness ==
    /\ last.op = "save"
    /\ last.kind = "ok"
    /\ ~last.uf.given
    /\ last.inst.pk = NoPk
    /\ last.inst.end_date = last.inst.start_date
    /\ db[last.id] = RowOf(last.inst)

\* C4: a save() that fails leaves the table as it was: nothing inserted, and
\* on an update every stored value of the row still in place.
C4_FailedSaveChangesNothing ==
    [][ (last'.op \in {"save", "write"} /\ last'.kind # "ok") => db' = db ]_vars

\* A rejected update whose end date differs from the stored one.
C4_Witness ==
    /\ last.op = "save"
    /\ last.kind = "ValidationError"
    /\ last.id \in 1..Len(db)
    /\ ~last.uf.given
    /\ db[last.id].end_date # last.inst.end_date

\* C5: the listing returns every persisted record exactly once, by start_date
\* ascending and, for equal start_date, by id ascending.
C5_ListingOrdered ==
    last.op = "list" =>
        /\ last.kind = "ok"
        /\ Len(last.out) = Len(db)
        /\ \A i \in 1..Len(db) :
             Cardinality({ k \in 1..Len(last.out) : last.out[k].id = i }) = 1
        /\ \A k \in 1..Len(last.out) :
             /\ last.out[k].id \in 1..Len(db)
             /\ last.out[k] = ToRepresentation(last.out[k].id, db[last.out[k].id])
        /\ \A k \in 1..(Len(last.out) - 1) :
             LET a == last.out[k].id
                 b == last.out[k + 1].id
             IN  \/ DateLt(db[a].start_date, db[b].start_date)
                 \/ db[a].start_date = db[b].start_date /\ a < b

\* A listing of two records that share their start date.
C5_Witness ==
    /\ last.op = "list"
    /\ Len(db) = 2
    /\ db[1].start_date = db[2].start_date
    /\ Len(last.out) = 2

\* C6: get_medication(id) returns the record with that id when there is one,
\* and fails with NotFound, and nothing else, when there is none.
C6_GetOrNotFound ==
    last.op = "get" =>
        IF last.id \in 1..Len(db)
        THEN /\ last.kind = "ok"
             /\ last.out = << ToRepresentation(last.id, db[last.id]) >>
        ELSE last.kind = "NotFound" /\ last.out = << >>

\* A lookup of an id that is not in a non-empty table.
C6_Witness ==
    /\ last.op = "get"
    /\ Len(db) > 0
    /\ last.id \notin 1..Len(db)
    /\ last.kind = "NotFound"

\* C7: the exposed operations are read-only: no request, answered or
\* refused, changes the table, and a request to create or update is refused.
C7_ExposedSurfaceReadOnly ==
    [][ /\ last'.op \in {"list", "get", "request"} => db' = db
        /\ last'.op = "request" => last'.kind = "MethodNotAllowed" ]_vars

\* A refused request to change a stored record.
C7_Witness ==
    /\ last.op = "request"
    /\ last.id \in 1..Len(db)
    /\ last.kind = "MethodNotAllowed"

\* C8: a record accepted by save() reads back through the wire form with the
\* seven fields, each written field equal to the value written, dates as
\* YYYY-MM-DD and an absent end_date as null.
C8_RoundTrip ==
    ( /\ last.op \in {"save", "write"}
      /\ last.kind = "ok"
      /\ Written(last.uf) # {} )
    => LET w == ToRepresentation(last.id, db[last.id])
       IN  /\ DOMAIN w = DataFields \cup {"id"}
           /\ w.id = last.id
           /\ \A f \in Written(last.uf) \ {"start_date", "end_date"} :
                w[f] = last.inst[f]
           /\ "start_date" \in Written(last.uf) =>
                /\ IsWireDate(w.start_date)
                /\ ParseIso(w.start_date) = last.inst.start_date
           /\ "end_date" \in Written(last.uf) =>
                IF last.inst.end_date = None
                THEN w.end_date = WireNull
                ELSE /\ IsWireDate(w.end_date)
                     /\ ParseIso(w.end_date) = last.inst.end_date

\* An insert of a record with no end date and the month and day of its start
\* date different.
C8_Witness ==
    /\ last.op = "save"
    /\ last.kind = "ok"
    /\ ~last.uf.given
    /\ last.inst.end_date = None
    /\ last.inst.start_date = << 2023, 12, 31 >>
    /\ db[last.id] = RowOf(last.inst)

\* C9: for every write attempt (a full create payload, or an update payload
\* that carries end_date) the gateway raises the end_date error exactly when
\* save() of the resulting record raises it.
C9_GatewayAgreesWithStore ==
    ( /\ last.op = "write"
      /\ (RequiredFields \subseteq last.data.keys \/ "end_date" \in last.data.keys) )
    =>  ( (last.layer = "gateway" /\ SerializerEndDateError \in last.errs)
          <=> ModelEndDateError \in FullClean(last.inst).errs )

\* C10: save() of a record with no start_date is rejected with a
\* ValidationError naming start_date, with or without an end_date.
C10_MissingStartDateRejected ==
    (last.op = "save" /\ last.inst.start_date = None)
    => /\ last.kind = "ValidationError"
       /\ \E e \in last.errs : e[1] = "start_date"

====
